---- MODULE Spec2Model ----
(***************************************************************************)
(* Model of the group-chat backend: the LLM router (llm_core.py) and the   *)
(* message dispatch / pairing layer (app.py).                              *)
(*                                                                         *)
(* Confidences are kept in tenths (0.9 is 9, 0.3 is 3).  A response text   *)
(* is the pair <<prefix, rest>> of the f-string that builds it, so that    *)
(* "begins with" is a comparison of the first component; str(e) of an      *)
(* exception caught inside the router is "e" and any generated text is     *)
(* "text".                                                                 *)
(***************************************************************************)
EXTENDS Integers, Sequences, FiniteSets, TLC

(* ----------------------------- bounds ---------------------------------- *)
\* longest handler registry the router is exercised with
MaxAgents == 3
\* number of HTTP requests (create / edit / delete / clear) in one run
MaxOps == 2
\* number of background units spawned in one run
MaxUnits == 2
\* number of inventory operations (chat add-item, REST create, REST update)
\* in one run
MaxInvOps == 2

(* ======================================================================= *)
(*                         Router  (llm_core.py)                           *)
(* ======================================================================= *)

\* confidence of a successful generic-completion fallback (0.3)
FallbackConfidence == 3
\* confidence reported when the fallback call itself fails (0.0)
FallbackErrorConfidence == 0

\* confidences a stub handler reports when it claims a message
Confidences == {5, 7}

\* A registered handler, seen through one message: what can_handle does for
\* it (raises, declines, claims with a confidence) and what execute does
\* (raises, returns an AgentResult with success true / false, or returns a
\* dict without the "message" key).
AgentStubs ==
    [can : {"raise", "no"}, conf : {0}, exec : {"raise", "ok", "fail", "malformed"}]
    \cup [can : {"yes"}, conf : Confidences, exec : {"raise", "ok", "fail", "malformed"}]

RECURSIVE SeqsUpTo(_, _)
SeqsUpTo(S, n) ==
    IF n = 0 THEN {<<>>}
    ELSE LET shorter == SeqsUpTo(S, n - 1)
         IN  shorter \cup {Append(s, x) : s \in {t \in shorter : Len(t) = n - 1}, x \in S}

\* every registry self.agents can hold, in registration order
AgentLists == SeqsUpTo(AgentStubs, MaxAgents)

\* agent.name of the handler registered at position i
AgentName(i) == <<"Agent", i>>

\* for agent in self.agents: can_handle(...); if can_handle: append.
\* can_handle is awaited outside any try block: an exception leaves the loop
\* and route_message.
RECURSIVE ScanAgents(_, _, _)
ScanAgents(agents, i, scores) ==
    IF i > Len(agents) THEN [raised |-> FALSE, scores |-> scores]
    ELSE IF agents[i].can = "raise" THEN [raised |-> TRUE, scores |-> scores]
    ELSE ScanAgents(agents, i + 1,
                    IF agents[i].can = "yes"
                    THEN Append(scores, <<i, agents[i].conf>>)
                    ELSE scores)

\* the broken insert: the new entry goes before the entries of equal confidence
InsertDescUnstable(sorted, x) ==
    LET p == Cardinality({j \in 1..Len(sorted) : sorted[j][2] > x[2]})
    IN  SubSeq(sorted, 1, p) \o <<x>> \o SubSeq(sorted, p + 1, Len(sorted))

\* one step of the stable descending sort: x goes after every entry whose
\* confidence is greater than or equal to its own
InsertDesc(sorted, x) ==
    LET p == Cardinality({j \in 1..Len(sorted) : sorted[j][2] >= x[2]})
    IN  SubSeq(sorted, 1, p) \o <<x>> \o SubSeq(sorted, p + 1, Len(sorted))

\* agent_scores.sort(key=lambda x: x[1], reverse=True): list.sort is stable,
\* also with reverse=True
RECURSIVE SortFrom(_, _, _)
SortFrom(scores, i, acc) ==
    IF i > Len(scores) THEN acc
    ELSE SortFrom(scores, i + 1, InsertDesc(acc, scores[i]))

SortByConfidence(scores) == SortFrom(scores, 1, <<>>)

\* the except branch reporting the confidence of a successful fallback
FallbackErrorResultSameConfidence ==
    [raised |-> FALSE, agent_used |-> <<"GeneralLLM">>, confidence |-> FallbackConfidence,
     response |-> <<"Sorry, I encountered an error: ", "e">>,
     success |-> FALSE, actions |-> <<"error">>, executed |-> <<>>, fallback |-> TRUE]

\* the except branch of _fallback_llm_response
FallbackErrorResult ==
    [raised |-> FALSE, agent_used |-> <<"GeneralLLM">>, confidence |-> FallbackErrorConfidence,
     response |-> <<"Sorry, I encountered an error: ", "e">>,
     success |-> FALSE, actions |-> <<"error">>, executed |-> <<>>, fallback |-> TRUE]

\* _fallback_llm_response: chat_completion returns a text or raises
FallbackLLMResponse(fb) ==
    IF fb = "ok"
    THEN [raised |-> FALSE, agent_used |-> <<"GeneralLLM">>, confidence |-> FallbackConfidence,
          response |-> <<"", "text">>,
          success |-> TRUE, actions |-> <<"general_chat">>, executed |-> <<>>, fallback |-> TRUE]
    ELSE FallbackErrorResult

\* the execution that answers with the generic completion when the chosen
\* handler raises
ExecuteBestThenFallback(agents, best) ==
    LET i == best[1]
        base == [raised |-> FALSE, agent_used |-> AgentName(i), confidence |-> best[2],
                 executed |-> <<i>>, fallback |-> FALSE]
    IN  IF agents[i].exec \in {"ok", "fail"}
        THEN base @@ [response |-> <<"", "text">>, success |-> agents[i].exec = "ok",
                      actions |-> <<>>]
        ELSE [raised |-> FALSE, agent_used |-> <<"GeneralLLM">>,
              confidence |-> FallbackConfidence, response |-> <<"", "text">>,
              success |-> TRUE, actions |-> <<"general_chat">>, executed |-> <<i>>,
              fallback |-> TRUE]

\* try: result = await best_agent.execute(...); return {...}
\* except Exception as e: return {..."Error executing agent: ..."}
\* result["message"] is read inside the try, so a result without that key
\* ends in the except branch as well.
ExecuteBest(agents, best) ==
    LET i == best[1]
        confidence == best[2]
        base == [raised |-> FALSE, agent_used |-> AgentName(i), confidence |-> confidence,
                 executed |-> <<i>>, fallback |-> FALSE]
    IN  CASE agents[i].exec = "ok" ->
               base @@ [response |-> <<"", "text">>, success |-> TRUE,
                        actions |-> <<>>]
          [] agents[i].exec = "fail" ->
               base @@ [response |-> <<"", "text">>, success |-> FALSE,
                        actions |-> <<>>]
          [] agents[i].exec = "raise" ->
               base @@ [response |-> <<"Error executing agent: ", "e">>,
                        success |-> FALSE, actions |-> <<"error">>]
          [] OTHER ->
               base @@ [response |-> <<"Error executing agent: ", "e">>,
                        success |-> FALSE, actions |-> <<"error">>]

\* what route_message does when an exception leaves it: no RouteResult, the
\* caller gets the exception (str(e) of a can_handle failure)
Propagated ==
    [raised |-> TRUE, error |-> "can_handle failed", agent_used |-> <<>>, confidence |-> 0,
     response |-> <<>>, success |-> "unset", actions |-> <<>>, executed |-> <<>>,
     fallback |-> FALSE]

\* LLMRouter.route_message
RouteMessage(agents, fb) ==
    LET scan == ScanAgents(agents, 1, <<>>)
    IN  IF scan.raised THEN Propagated
        ELSE LET agent_scores == SortByConfidence(scan.scores)
             IN  IF agent_scores # <<>>
                 THEN ExecuteBest(agents, agent_scores[1])
                 ELSE FallbackLLMResponse(fb)

(* ======================================================================= *)
(*                 Dispatch and pairing layer  (app.py)                    *)
(* ======================================================================= *)

\* rows of the users table (User.id); tokens are only issued to them
Users == {1, 2}

\* User.username of the row with this id
Username(u) == <<"user", u>>

\* characters of a message body: a whitespace character, the trigger marker
\* and an ordinary character
Whitespace == {" "}

\* the message bodies requests carry
Contents ==
    { <<"a">>, <<" ", "#", " ">>, <<" ", "#", "a", " ">>, <<"a", "#">> }

\* str.lstrip()
RECURSIVE LStrip(_)
LStrip(s) == IF s # <<>> /\ Head(s) \in Whitespace THEN LStrip(Tail(s)) ELSE s

\* str.rstrip()
RECURSIVE RStrip(_)
RStrip(s) ==
    IF s # <<>> /\ s[Len(s)] \in Whitespace THEN RStrip(SubSeq(s, 1, Len(s) - 1)) ELSE s

\* str.strip()
Strip(s) == RStrip(LStrip(s))

\* s.startswith('#')
StartsWithMarker(s) == s # <<>> /\ Head(s) = "#"

\* payload.content.strip()[1:].strip()
ActualContent(content) ==
    LET stripped == Strip(content)
    IN  Strip(SubSeq(stripped, 2, Len(stripped)))

\* the trigger test with the emptiness test of actual_content left out
SpawnsUnitAnyMarker(content) == StartsWithMarker(Strip(content))

\* if payload.content.strip().startswith('#'): ... if actual_content: create_task
SpawnsUnit(content) ==
    StartsWithMarker(Strip(content)) /\ ActualContent(content) # <<>>

\* no row / None
None == 0

VARIABLES
    messages,   \* the messages table: the committed conversation stream
    nextId,     \* the AUTO_INCREMENT counter of messages.id
    events,     \* what has been handed to manager.broadcast, in order
    units,      \* the background tasks created by asyncio.create_task
    opCount,    \* number of requests served
    lastOp,     \* the last request served and its response
    rAgents,    \* router run: the registry
    rFallback,  \* router run: what chat_completion does
    rPhase,     \* router run: "ready" or "done"
    rResult,    \* router run: what route_message produced
    hCall,      \* handler run: the handler and what its collaborators do
    hPhase,     \* handler run: "ready" or "done"
    hResult,    \* handler run: what execute and the router made of it
    collection, \* the "lesson_plans" collection of the vector index
    items,      \* the inventory_items table
    items0,     \* the inventory_items table as it was at startup
    transactions, \* the inventory_transactions table, in insertion order
    invOps      \* the inventory operations begun so far, each with its position

streamVars == <<messages, nextId, events, units, opCount, lastOp>>
routerVars == <<rAgents, rFallback, rPhase, rResult>>
handlerVars == <<hCall, hPhase, hResult, collection>>
invVars == <<items, items0, transactions, invOps>>
vars == <<messages, nextId, events, units, opCount, lastOp,
          rAgents, rFallback, rPhase, rResult,
          hCall, hPhase, hResult, collection,
          items, items0, transactions, invOps>>

(* --------------------------- storage helpers --------------------------- *)

\* session.get(Message, message_id) finds a row
HasRow(ms, message_id) == \E m \in ms : m.id = message_id

\* the row session.get(Message, message_id) returns
Row(ms, message_id) == CHOOSE m \in ms : m.id = message_id

\* the query ordered by descending id: the last bot row after message_id
NextBotMsgLast(ms, message_id) ==
    LET later == {m.id : m \in {x \in ms : x.id > message_id /\ x.is_bot}}
    IN  IF later = {} THEN None
        ELSE CHOOSE b \in later : \A c \in later : b >= c

\* select(Message).where(Message.id > message_id, Message.is_bot == True)
\*   .order_by(Message.id).limit(1): the id of that row, or None
NextBotMsg(ms, message_id) ==
    LET later == {m.id : m \in {x \in ms : x.id > message_id /\ x.is_bot}}
    IN  IF later = {} THEN None
        ELSE CHOOSE b \in later : \A c \in later : b <= c

\* select(Message).where(Message.id > message_id, Message.id < next_bot_msg.id,
\*   Message.is_bot == False) returns a row
UserBetween(ms, message_id, bot_id) ==
    \E m \in ms : m.id > message_id /\ m.id < bot_id /\ ~m.is_bot

\* the scan without the check for user messages in between
BotMsgDeletedIdNoBetween(ms, message_id) == NextBotMsg(ms, message_id)

\* the scan that never finds a reply
BotMsgDeletedIdNever(ms, message_id) == None

\* bot_msg_deleted_id of edit_message and delete_single_message
BotMsgDeletedId(ms, message_id) ==
    LET next_bot_msg == NextBotMsg(ms, message_id)
    IN  IF next_bot_msg # None /\ ~UserBetween(ms, message_id, next_bot_msg)
        THEN next_bot_msg
        ELSE None

(* ------------------------------ broadcast ------------------------------ *)

\* manager.broadcast(payload): the payload is handed to the broadcaster
Broadcast(evs, payloads) == evs \o payloads

\* the payload broadcast_message builds
MessageEvent(m) ==
    [type |-> "message",
     message |-> [id |-> m.id,
                  username |-> IF m.is_bot THEN <<"LLM Bot">> ELSE Username(m.user_id),
                  content |-> m.content, is_bot |-> m.is_bot]]

\* the payload of edit_message
EditedEvent(m, caller) ==
    [type |-> "message_edited",
     message |-> [id |-> m.id, username |-> Username(caller),
                  content |-> m.content, is_bot |-> FALSE]]

\* the payload of a deletion
DeletedEvent(message_id) == [type |-> "message_deleted", message_id |-> message_id]

\* edit_message with the two broadcasts swapped
EditEventsDeletedFirst(edited, caller, bot_msg_deleted_id) ==
    (IF bot_msg_deleted_id # None THEN <<DeletedEvent(bot_msg_deleted_id)>> ELSE <<>>)
    \o <<EditedEvent(edited, caller)>>

\* edit_message: "Broadcast the update", then "If we deleted a bot message,
\* broadcast that too"
EditEvents(edited, caller, bot_msg_deleted_id) ==
    <<EditedEvent(edited, caller)>>
    \o (IF bot_msg_deleted_id # None THEN <<DeletedEvent(bot_msg_deleted_id)>> ELSE <<>>)

\* delete_single_message with the bot's deletion announced first
DeleteEventsBotFirst(message_id, bot_msg_deleted_id) ==
    (IF bot_msg_deleted_id # None THEN <<DeletedEvent(bot_msg_deleted_id)>> ELSE <<>>)
    \o <<DeletedEvent(message_id)>>

\* delete_single_message: the user message's deletion, then the bot's
DeleteEvents(message_id, bot_msg_deleted_id) ==
    <<DeletedEvent(message_id)>>
    \o (IF bot_msg_deleted_id # None THEN <<DeletedEvent(bot_msg_deleted_id)>> ELSE <<>>)

(* --------------------------- background units -------------------------- *)

\* asyncio.create_task(maybe_answer_with_llm(actual_content, username));
\* trigger is the id of the message whose request created the task
NewUnit(content, caller, trigger) ==
    [content |-> ActualContent(content), username |-> Username(caller),
     pc |-> "spawned", bot_id |-> None, trigger |-> trigger, failed |-> "no"]

\* a request that creates the task twice
SpawnTwice(us, content, caller, trigger) ==
    IF SpawnsUnit(content)
    THEN us \o <<NewUnit(content, caller, trigger), NewUnit(content, caller, trigger)>>
    ELSE us

\* the tasks a request creates
Spawn(us, content, caller, trigger) ==
    IF SpawnsUnit(content) THEN Append(us, NewUnit(content, caller, trigger)) ELSE us

\* try: result = await llm_router.route_message(...); reply_text = result["response"]
\* except Exception as e: reply_text = f"Sorry, I encountered an error: {str(e)}"
ReplyText(result) ==
    IF result.raised THEN <<"Sorry, I encountered an error: ", result.error>>
    ELSE result.response

\* what chat_completion does in the fallback
FallbackOutcomes == {"ok", "raise"}

\* The router calls a unit is run with: a registry of at most one handler
\* whose execute returns, and a fallback that answers.  They take
\* maybe_answer_with_llm through its try branch and through its except
\* branch; it does not look into the text the router returns.
UnitRegistries ==
    {a \in AgentLists : Len(a) <= 1 /\ \A i \in 1..Len(a) : a[i].exec = "ok"}

\* every reply_text those calls leave
UnitReplies == {ReplyText(RouteMessage(a, "ok")) : a \in UnitRegistries}

\* the row of a reply stored as an ordinary message
BotRowNotBot(id, reply_text) ==
    [id |-> id, user_id |-> None, content |-> reply_text, is_bot |-> FALSE]

\* bot_msg = Message(user_id=None, content=reply_text, is_bot=True)
BotRow(id, reply_text) ==
    [id |-> id, user_id |-> None, content |-> reply_text, is_bot |-> TRUE]

(* ------------------------------- requests ------------------------------ *)

\* the checks with the ownership test reduced to "not a bot message"
RequestStatusNoOwner(ms, caller, message_id) ==
    IF caller \notin Users THEN 401
    ELSE IF ~HasRow(ms, message_id) THEN 404
    ELSE IF Row(ms, message_id).is_bot THEN 403
    ELSE 200

\* the HTTPException checks of edit_message and delete_single_message
RequestStatus(ms, caller, message_id) ==
    IF caller \notin Users THEN 401
    ELSE IF ~HasRow(ms, message_id) THEN 404
    ELSE IF Row(ms, message_id).is_bot \/ Row(ms, message_id).user_id # caller THEN 403
    ELSE 200

\* a request that ends in an HTTPException: nothing is committed
Rejected(kind, message_id, status) ==
    /\ lastOp' = [kind |-> kind, target |-> message_id, status |-> status, bot |-> None]
    /\ UNCHANGED <<messages, nextId, events, units>>

\* the create that stores the message and creates the task without
\* broadcasting the message
PostMessageUnannounced(caller, content) ==
    /\ opCount < MaxOps
    /\ SpawnsUnit(content) => Len(units) < MaxUnits
    /\ opCount' = opCount + 1
    /\ IF caller \notin Users THEN Rejected("create", None, 401)
       ELSE LET m == [id |-> nextId, user_id |-> caller, content |-> content,
                      is_bot |-> FALSE]
            IN  /\ messages' = messages \cup {m}
                /\ nextId' = nextId + 1
                /\ events' = events
                /\ units' = Spawn(units, content, caller, m.id)
                /\ lastOp' = [kind |-> "create", target |-> m.id, status |-> 200,
                              bot |-> None]
    /\ UNCHANGED <<routerVars, handlerVars, invVars>>

\* POST /api/messages
PostMessage(caller, content) ==
    /\ opCount < MaxOps
    /\ SpawnsUnit(content) => Len(units) < MaxUnits
    /\ opCount' = opCount + 1
    /\ IF caller \notin Users THEN Rejected("create", None, 401)
       ELSE LET m == [id |-> nextId, user_id |-> caller, content |-> content,
                      is_bot |-> FALSE]
            IN  /\ messages' = messages \cup {m}
                /\ nextId' = nextId + 1
                /\ events' = Broadcast(events, <<MessageEvent(m)>>)
                /\ units' = Spawn(units, content, caller, m.id)
                /\ lastOp' = [kind |-> "create", target |-> m.id, status |-> 200,
                              bot |-> None]
    /\ UNCHANGED <<routerVars, handlerVars, invVars>>

\* PUT /api/messages/{message_id}
EditMessage(caller, message_id, content) ==
    /\ opCount < MaxOps
    /\ SpawnsUnit(content) => Len(units) < MaxUnits
    /\ opCount' = opCount + 1
    /\ LET status == RequestStatus(messages, caller, message_id)
       IN  IF status # 200 THEN Rejected("edit", message_id, status)
           ELSE LET bot_msg_deleted_id == BotMsgDeletedId(messages, message_id)
                    msg == Row(messages, message_id)
                    edited == [msg EXCEPT !.content = content]
                IN  /\ messages' =
                          {m \in messages : m.id \notin {message_id, bot_msg_deleted_id}}
                          \cup {edited}
                    /\ events' = Broadcast(events,
                                           EditEvents(edited, caller, bot_msg_deleted_id))
                    /\ units' = Spawn(units, content, caller, message_id)
                    /\ lastOp' = [kind |-> "edit", target |-> message_id, status |-> 200,
                                  bot |-> bot_msg_deleted_id]
                    /\ UNCHANGED nextId
    /\ UNCHANGED <<routerVars, handlerVars, invVars>>

\* the delete that cancels the tasks created for the message
DeleteSingleMessageCancelling(caller, message_id) ==
    /\ opCount < MaxOps
    /\ opCount' = opCount + 1
    /\ LET status == RequestStatus(messages, caller, message_id)
       IN  IF status # 200 THEN Rejected("delete", message_id, status)
           ELSE LET bot_msg_deleted_id == BotMsgDeletedId(messages, message_id)
                IN  /\ messages' =
                          {m \in messages : m.id \notin {message_id, bot_msg_deleted_id}}
                    /\ events' = Broadcast(events,
                                           DeleteEvents(message_id, bot_msg_deleted_id))
                    /\ lastOp' = [kind |-> "delete", target |-> message_id,
                                  status |-> 200, bot |-> bot_msg_deleted_id]
                    /\ units' = [u \in 1..Len(units) |->
                                    IF units[u].trigger = message_id
                                       /\ units[u].pc \in {"spawned", "committed"}
                                    THEN [units[u] EXCEPT !.pc = "aborted"]
                                    ELSE units[u]]
                    /\ UNCHANGED nextId
    /\ UNCHANGED <<routerVars, handlerVars, invVars>>

\* DELETE /api/messages/{message_id}
DeleteSingleMessage(caller, message_id) ==
    /\ opCount < MaxOps
    /\ opCount' = opCount + 1
    /\ LET status == RequestStatus(messages, caller, message_id)
       IN  IF status # 200 THEN Rejected("delete", message_id, status)
           ELSE LET bot_msg_deleted_id == BotMsgDeletedId(messages, message_id)
                IN  /\ messages' =
                          {m \in messages : m.id \notin {message_id, bot_msg_deleted_id}}
                    /\ events' = Broadcast(events,
                                           DeleteEvents(message_id, bot_msg_deleted_id))
                    /\ lastOp' = [kind |-> "delete", target |-> message_id,
                                  status |-> 200, bot |-> bot_msg_deleted_id]
                    /\ UNCHANGED <<nextId, units>>
    /\ UNCHANGED <<routerVars, handlerVars, invVars>>

\* DELETE /api/messages
ClearMessages(caller) ==
    /\ opCount < MaxOps
    /\ opCount' = opCount + 1
    /\ messages' = {}
    /\ lastOp' = [kind |-> "clear", target |-> None, status |-> 200, bot |-> None]
    /\ UNCHANGED <<nextId, events, units, routerVars, handlerVars, invVars>>

(* ----------------------- steps of a background unit -------------------- *)

\* maybe_answer_with_llm up to the commit: the router call returns or raises,
\* reply_text is set either way, and
\* bot_msg = Message(user_id=None, content=reply_text, is_bot=True);
\* session.add(bot_msg); await session.commit()
UnitAnswer(u) ==
    /\ u \in 1..Len(units)
    /\ units[u].pc = "spawned"
    /\ \E reply_text \in UnitReplies :
          LET bot_msg == BotRow(nextId, reply_text)
          IN  /\ messages' = messages \cup {bot_msg}
              /\ nextId' = nextId + 1
              /\ units' = [units EXCEPT ![u].pc = "committed", ![u].bot_id = bot_msg.id]
    /\ UNCHANGED <<events, opCount, lastOp, routerVars, handlerVars, invVars>>

\* a failing commit after which the task starts over
UnitCommitFailsRetries(u) ==
    /\ u \in 1..Len(units)
    /\ units[u].pc = "spawned"
    /\ units' = [units EXCEPT ![u].failed = "commit"]
    /\ UNCHANGED <<messages, nextId, events, opCount, lastOp, routerVars, handlerVars, invVars>>

\* the same, with session.commit() raising: the exception leaves
\* maybe_answer_with_llm and ends the task
UnitCommitFails(u) ==
    /\ u \in 1..Len(units)
    /\ units[u].pc = "spawned"
    /\ units' = [units EXCEPT ![u].pc = "aborted", ![u].failed = "commit"]
    /\ UNCHANGED <<messages, nextId, events, opCount, lastOp, routerVars, handlerVars, invVars>>

\* the last step of a unit without the call of broadcast_message
UnitBroadcastSilent(u) ==
    /\ u \in 1..Len(units)
    /\ units[u].pc = "committed"
    /\ units' = [units EXCEPT ![u].pc = "done"]
    /\ UNCHANGED <<messages, nextId, events, opCount, lastOp, routerVars, handlerVars, invVars>>

\* await session.refresh(bot_msg); await broadcast_message(session, bot_msg).
\* refresh reloads the row and raises when it is gone.
UnitBroadcast(u) ==
    /\ u \in 1..Len(units)
    /\ units[u].pc = "committed"
    /\ IF HasRow(messages, units[u].bot_id)
       THEN /\ events' = Broadcast(events,
                                   <<MessageEvent(Row(messages, units[u].bot_id))>>)
            /\ units' = [units EXCEPT ![u].pc = "done"]
       ELSE /\ units' = [units EXCEPT ![u].pc = "aborted", ![u].failed = "refresh"]
            /\ UNCHANGED events
    /\ UNCHANGED <<messages, nextId, opCount, lastOp, routerVars, handlerVars, invVars>>

(* ======================================================================= *)
(*        Handlers  (agents/lesson_plan_agent.py, inventory_agent.py)      *)
(* ======================================================================= *)

\* what a call to a collaborator (storage, embedding, vector index,
\* generation) does: it returns or it raises
CallOutcomes == {"ok", "raise"}

\* execute left by an exception: no AgentResult
ExecuteRaised == [raised |-> TRUE, success |-> "unset", message |-> <<>>]

\* an AgentResult; the message is the pair <<fixed text, inserted text>>
AgentResult(success, message) ==
    [raised |-> FALSE, success |-> success, message |-> message]

\* summarize_lesson_plan: the generated summary, or the truncated source when
\* chat_completion raises
SummarizeLessonPlan(gen) ==
    IF gen = "ok" THEN "summary" ELSE "truncation"

\* The calls LessonPlanAgent.execute is run with: what the vector index does
\* when it is opened and when it is queried, what the embedder does, what the
\* generation call does, and the documents the query returns (none, one of
\* at most 200 characters, one longer than that).
LessonCalls ==
    [agent : {"LessonPlanAgent"}, index : CallOutcomes, embed : CallOutcomes,
     query : CallOutcomes, gen : CallOutcomes, docs : {"none", "short", "long"}]

\* LessonPlanAgent.execute: the index is opened, the message embedded and the
\* index queried outside any try block; only the summary has one
LessonPlanExecute(c) ==
    IF c.index = "raise" \/ c.embed = "raise" \/ c.query = "raise" THEN ExecuteRaised
    ELSE CASE c.docs = "none" ->
                AgentResult(TRUE, <<"No relevant lesson plans found.", "">>)
           [] c.docs = "short" ->
                AgentResult(TRUE, <<"Top lesson plans found:", "document">>)
           [] OTHER ->
                AgentResult(TRUE, <<"Top lesson plans found:", SummarizeLessonPlan(c.gen)>>)

\* _generate_stock_response / _generate_full_inventory_response: the
\* generated text, or the text built from the facts when chat_completion raises
GenerateStockResponse(gen) ==
    IF gen = "ok" THEN <<"", "text">> ELSE <<"Found item(s): ", "facts">>

\* The calls InventoryAgent.execute is run with on its stock-check path:
\* whether an item name is extracted, what the storage query does, whether it
\* finds rows, whether a similar name exists, what the generation call does.
StockCheckCalls ==
    [agent : {"InventoryAgent"}, item_name : BOOLEAN, storage : CallOutcomes,
     found : BOOLEAN, similar : BOOLEAN, gen : CallOutcomes]

\* InventoryAgent.execute -> _handle_stock_check: session.execute is awaited
\* outside any try block
InventoryStockCheck(c) ==
    IF c.storage = "raise" THEN ExecuteRaised
    ELSE IF c.found THEN AgentResult(TRUE, GenerateStockResponse(c.gen))
    ELSE IF ~c.item_name
         THEN AgentResult(TRUE, <<"Inventory is empty. Start by adding items!", "">>)
    ELSE IF c.similar
         THEN AgentResult(FALSE, <<"No items found matching. Did you mean: ", "names">>)
    ELSE AgentResult(FALSE, <<"No items found matching. ", "hint">>)

\* what the "lesson_plans" collection can be: not there, there without
\* documents, there with the indexed lesson plans
Collections == {"absent", "empty", "indexed"}

\* chroma_client.get_or_create_collection(name="lesson_plans")
GetOrCreateCollection(col) == IF col = "absent" THEN "empty" ELSE col

\* the collection after LessonPlanAgent.execute: the client is opened and the
\* collection fetched or created before anything else; c.index is what these
\* two calls do
LessonPlanCollection(c, col) ==
    IF c.index = "ok" THEN GetOrCreateCollection(col) ELSE col

\* agent.execute(user_message, context, session)
Execute(c) ==
    IF c.agent = "LessonPlanAgent" THEN LessonPlanExecute(c) ELSE InventoryStockCheck(c)

\* route_message around the execute of the chosen handler: the response it
\* returns, which maybe_answer_with_llm stores as the reply
ExecuteResponse(outcome) ==
    IF outcome.raised THEN <<"Error executing agent: ", "e">> ELSE outcome.message

\* a call to the generation, embedding or vector-index service failed among
\* those the handler made
BoundaryFailed(c) ==
    IF c.agent = "LessonPlanAgent"
    THEN \/ c.index = "raise"
         \/ c.embed = "raise"
         \/ c.query = "raise"
         \/ (c.docs = "long" /\ c.gen = "raise")
    ELSE c.storage = "ok" /\ c.found /\ c.gen = "raise"

\* a call failed among those the handler made
CallFailed(c) ==
    IF c.agent = "LessonPlanAgent"
    THEN \/ c.index = "raise"
         \/ c.embed = "raise"
         \/ c.query = "raise"
         \/ (c.docs = "long" /\ c.gen = "raise")
    ELSE c.storage = "raise" \/ (c.found /\ c.gen = "raise")

\* no handler run
HandlerIdle ==
    /\ hCall = [agent |-> "none"]
    /\ hPhase = "idle"
    /\ hResult = [outcome |-> ExecuteRaised, response |-> <<>>]
    /\ collection = "absent"

\* one execute of a handler and the response route_message builds from it
HandlerStep ==
    /\ hPhase = "ready"
    /\ hResult' = [outcome |-> Execute(hCall), response |-> ExecuteResponse(Execute(hCall))]
    /\ collection' = IF hCall.agent = "LessonPlanAgent"
                     THEN LessonPlanCollection(hCall, collection)
                     ELSE collection
    /\ hPhase' = "done"
    /\ UNCHANGED <<hCall, streamVars, routerVars, invVars>>

(* ======================================================================= *)
(*      Inventory store  (agents/inventory_agent.py, app.py, db.py)        *)
(* ======================================================================= *)

\* item names the add-item handler extracts from a chat message (lower case)
ChatNames == {<<"p">>, <<"q">>}

\* item names a POST /api/inventory payload carries
RestNames == {<<"P">>, <<"b", "p">>}

\* quantities an add-item message or an item payload carries
Quantities == {1, 2}

\* quantity_change values of PUT /api/inventory/{item_id}
Changes == {-1, 1}

\* case folding of ILIKE
FoldChar(ch) == IF ch = "P" THEN "p" ELSE ch

Fold(name) == [i \in 1..Len(name) |-> FoldChar(name[i])]

\* the select that finds nothing
IlikeContainsNever(stored, item_name) == FALSE

\* InventoryItem.name.ilike(f"%{item_name}%"): the stored name contains the
\* extracted name, case ignored
IlikeContains(stored, item_name) ==
    \E i \in 0..(Len(stored) - Len(item_name)) :
        SubSeq(Fold(stored), i + 1, i + Len(item_name)) = Fold(item_name)

\* a row of inventory_items
ItemRow(id, name, quantity) == [id |-> id, name |-> name, quantity |-> quantity]

\* a row of inventory_transactions
TransactionRow(item_id, transaction_type, quantity_change, quantity_after) ==
    [item_id |-> item_id, transaction_type |-> transaction_type,
     quantity_change |-> quantity_change, quantity_after |-> quantity_after]

\* the id AUTO_INCREMENT gives the next item (no item is ever deleted)
NextItemId(its) == Cardinality(its) + 1

\* the item row with this id
ItemById(its, id) == CHOOSE i \in its : i.id = id

\* the item rows with the quantity of one of them replaced
WithQuantity(its, id, quantity) ==
    {IF i.id = id THEN [i EXCEPT !.quantity = quantity] ELSE i : i \in its}

\* an operation was begun while another one had not finished
Overlaps(ops) == \E o \in 1..Len(ops) : ops[o].pc \notin {"done", "rejected"}

\* _handle_add_item up to the result of its select: the item found
\* (existing_items[0], of a query without ORDER BY) and the quantity loaded
\* with it, or no item
AddItemSelect(item_name, quantity) ==
    /\ Len(invOps) < MaxInvOps
    /\ LET existing_items == {i \in items : IlikeContains(i.name, item_name)}
           begun == [kind |-> "add", name |-> item_name, quantity |-> quantity,
                     pc |-> "selected", overlap |-> Overlaps(invOps)]
       IN  IF existing_items # {}
           THEN \E item \in existing_items :
                   invOps' = Append(invOps,
                                    begun @@ [item_id |-> item.id, loaded |-> item.quantity])
           ELSE invOps' = Append(invOps, begun @@ [item_id |-> None, loaded |-> 0])
    /\ UNCHANGED <<items, items0, transactions, streamVars, routerVars, handlerVars>>

\* the commit of add-item that leaves the transaction record out
AddItemCommitUnlogged(o) ==
    /\ o \in 1..Len(invOps)
    /\ invOps[o].kind = "add"
    /\ invOps[o].pc = "selected"
    /\ LET op == invOps[o]
       IN  IF op.item_id # None
           THEN items' = WithQuantity(items, op.item_id, op.loaded + op.quantity)
           ELSE items' = items \cup {ItemRow(NextItemId(items), op.name, op.quantity)}
    /\ invOps' = [invOps EXCEPT ![o].pc = "done"]
    /\ UNCHANGED <<items0, transactions, streamVars, routerVars, handlerVars>>

\* _handle_add_item from there to its commit.  Existing item:
\* item.quantity += quantity on the loaded row, one transaction record, one
\* commit.  No item: new row, flush, one transaction record, one commit.
AddItemCommit(o) ==
    /\ o \in 1..Len(invOps)
    /\ invOps[o].kind = "add"
    /\ invOps[o].pc = "selected"
    /\ LET op == invOps[o]
       IN  IF op.item_id # None
           THEN LET quantity_after == op.loaded + op.quantity
                IN  /\ items' = WithQuantity(items, op.item_id, quantity_after)
                    /\ transactions' =
                          Append(transactions,
                                 TransactionRow(op.item_id, "add", op.quantity, quantity_after))
           ELSE LET new_item == ItemRow(NextItemId(items), op.name, op.quantity)
                IN  /\ items' = items \cup {new_item}
                    /\ transactions' =
                          Append(transactions,
                                 TransactionRow(new_item.id, "add", op.quantity, op.quantity))
    /\ invOps' = [invOps EXCEPT ![o].pc = "done"]
    /\ UNCHANGED <<items0, streamVars, routerVars, handlerVars>>

\* POST /api/inventory up to its first commit: the item row
AddInventoryItem(name, quantity) ==
    /\ Len(invOps) < MaxInvOps
    /\ items' = items \cup {ItemRow(NextItemId(items), name, quantity)}
    /\ invOps' = Append(invOps,
                        [kind |-> "create", name |-> name, quantity |-> quantity,
                         pc |-> "item_committed", overlap |-> Overlaps(invOps),
                         item_id |-> NextItemId(items), loaded |-> 0])
    /\ UNCHANGED <<items0, transactions, streamVars, routerVars, handlerVars>>

\* POST /api/inventory from there to its second commit: the "Initial stock"
\* transaction record, built from the payload
AddInventoryItemLog(o) ==
    /\ o \in 1..Len(invOps)
    /\ invOps[o].kind = "create"
    /\ invOps[o].pc = "item_committed"
    /\ transactions' =
          Append(transactions,
                 TransactionRow(invOps[o].item_id, "add", invOps[o].quantity,
                                invOps[o].quantity))
    /\ invOps' = [invOps EXCEPT ![o].pc = "done"]
    /\ UNCHANGED <<items, items0, streamVars, routerVars, handlerVars>>

\* PUT /api/inventory/{item_id} up to the result of session.get: 404 when
\* there is no such item
UpdateInventoryGet(item_id, quantity_change) ==
    /\ Len(invOps) < MaxInvOps
    /\ LET begun == [kind |-> "update", name |-> <<>>, quantity |-> quantity_change,
                     overlap |-> Overlaps(invOps), item_id |-> item_id]
       IN  IF \E i \in items : i.id = item_id
           THEN invOps' = Append(invOps,
                                 begun @@ [pc |-> "selected",
                                           loaded |-> ItemById(items, item_id).quantity])
           ELSE invOps' = Append(invOps, begun @@ [pc |-> "rejected", loaded |-> 0])
    /\ UNCHANGED <<items, items0, transactions, streamVars, routerVars, handlerVars>>

\* PUT /api/inventory/{item_id} from there to its commit:
\* item.quantity += quantity_change on the loaded row, one transaction record
UpdateInventoryCommit(o) ==
    /\ o \in 1..Len(invOps)
    /\ invOps[o].kind = "update"
    /\ invOps[o].pc = "selected"
    /\ LET op == invOps[o]
           quantity_after == op.loaded + op.quantity
       IN  /\ items' = WithQuantity(items, op.item_id, quantity_after)
           /\ transactions' =
                 Append(transactions,
                        TransactionRow(op.item_id,
                                       IF op.quantity > 0 THEN "add" ELSE "remove",
                                       op.quantity, quantity_after))
    /\ invOps' = [invOps EXCEPT ![o].pc = "done"]
    /\ UNCHANGED <<items0, streamVars, routerVars, handlerVars>>

\* no inventory traffic
InventoryIdle ==
    /\ items = {}
    /\ items0 = {}
    /\ transactions = <<>>
    /\ invOps = <<>>

(* ---------------------------- specifications --------------------------- *)

RouterIdle ==
    /\ rAgents = <<>>
    /\ rFallback = "ok"
    /\ rPhase = "idle"
    /\ rResult = Propagated

\* the part of the server state that is fresh at every start
NoTraffic ==
    /\ events = <<>>
    /\ units = <<>>
    /\ opCount = 0
    /\ lastOp = [kind |-> "none", target |-> None, status |-> 200, bot |-> None]

StreamEmpty ==
    /\ messages = {}
    /\ nextId = 1
    /\ NoTraffic

\* a user message row
UserMsg(id, user_id, content) ==
    [id |-> id, user_id |-> user_id, content |-> content, is_bot |-> FALSE]

\* a bot message row
BotMsg(id, content) ==
    [id |-> id, user_id |-> None, content |-> content, is_bot |-> TRUE]

\* Conversations the messages table holds when the server starts: none; or
\* a triggering message, another user's message and then the reply, which an
\* earlier run leaves behind (create, create, the unit's commit).
StoredStreams ==
    { {},
      {UserMsg(1, 1, <<" ", "#", "a", " ">>), UserMsg(2, 2, <<"a">>),
       BotMsg(3, <<"", "text">>)} }

\* the server after startup: a stored conversation, no task, nothing broadcast
Init ==
    /\ messages \in StoredStreams
    /\ nextId = Cardinality(messages) + 1
    /\ NoTraffic
    /\ RouterIdle
    /\ HandlerIdle
    /\ InventoryIdle

\* ids a request can name
Targets == 1..(nextId - 1)

Next ==
    \/ \E caller \in Users, content \in Contents : PostMessage(caller, content)
    \/ \E caller \in Users, message_id \in Targets, content \in Contents :
          EditMessage(caller, message_id, content)
    \/ \E caller \in Users, message_id \in Targets : DeleteSingleMessage(caller, message_id)
    \/ \E caller \in Users : ClearMessages(caller)
    \/ \E u \in 1..MaxUnits :
          UnitAnswer(u) \/ UnitCommitFails(u) \/ UnitBroadcast(u)

Spec == Init /\ [][Next]_vars

\* a call of route_message on a registry and a message
RouteStep ==
    /\ rPhase = "ready"
    /\ rResult' = RouteMessage(rAgents, rFallback)
    /\ rPhase' = "done"
    /\ UNCHANGED <<rAgents, rFallback, streamVars, handlerVars, invVars>>

\* a router holding any registry, about to route one message
RouterInit ==
    /\ StreamEmpty
    /\ rAgents \in AgentLists
    /\ rFallback \in FallbackOutcomes
    /\ rPhase = "ready"
    /\ rResult = Propagated
    /\ HandlerIdle
    /\ InventoryIdle

RouterNext == RouteStep

RouterSpec == RouterInit /\ [][RouterNext]_vars

\* every unit runs whenever it can: the event loop schedules each task, and
\* each awaited call returns or fails
UnitRuns(u) == UnitAnswer(u) \/ UnitBroadcast(u)

LiveSpec == Init /\ [][Next]_vars /\ \A u \in 1..MaxUnits : WF_vars(UnitRuns(u))

\* a task has been created and has neither finished nor failed
InFlight == \E u \in 1..Len(units) : units[u].pc \in {"spawned", "committed"}

\* The server when its clients wait for every reply before the next request:
\* no request is served while a task is in flight.
QuietNext ==
    \/ \E caller \in Users, content \in Contents :
          ~InFlight /\ PostMessage(caller, content)
    \/ \E caller \in Users, message_id \in Targets, content \in Contents :
          ~InFlight /\ EditMessage(caller, message_id, content)
    \/ \E caller \in Users, message_id \in Targets :
          ~InFlight /\ DeleteSingleMessage(caller, message_id)
    \/ \E caller \in Users : ~InFlight /\ ClearMessages(caller)
    \/ \E u \in 1..MaxUnits :
          UnitAnswer(u) \/ UnitCommitFails(u) \/ UnitBroadcast(u)

QuietSpec == Init /\ [][QuietNext]_vars

\* a handler about to be executed for one message, with any behaviour of its
\* collaborators; only a collection that holds documents returns some
HandlerInit ==
    /\ StreamEmpty
    /\ RouterIdle
    /\ InventoryIdle
    /\ hCall \in LessonCalls \cup StockCheckCalls
    /\ collection \in Collections
    /\ hCall.agent = "LessonPlanAgent" /\ collection # "indexed" => hCall.docs = "none"
    /\ hPhase = "ready"
    /\ hResult = [outcome |-> ExecuteRaised, response |-> <<>>]

HandlerNext == HandlerStep

HandlerSpec == HandlerInit /\ [][HandlerNext]_vars

\* The inventory tables at startup: empty, or one item created through
\* POST /api/inventory by an earlier run, with its "Initial stock" record.
StoredInventories ==
    { [items |-> {}, transactions |-> <<>>],
      [items |-> {ItemRow(1, <<"b", "p">>, 1)},
       transactions |-> <<TransactionRow(1, "add", 1, 1)>>] }

InventoryInit ==
    /\ StreamEmpty
    /\ RouterIdle
    /\ HandlerIdle
    /\ \E stored \in StoredInventories :
          /\ items = stored.items
          /\ items0 = stored.items
          /\ transactions = stored.transactions
    /\ invOps = <<>>

\* ids a REST update can name: the stored items and one id that is not there
ItemTargets == 1..(Cardinality(items) + 1)

InventoryNext ==
    \/ \E item_name \in ChatNames, quantity \in Quantities :
          AddItemSelect(item_name, quantity)
    \/ \E o \in 1..MaxInvOps : AddItemCommit(o)
    \/ \E name \in RestNames, quantity \in Quantities : AddInventoryItem(name, quantity)
    \/ \E o \in 1..MaxInvOps : AddInventoryItemLog(o)
    \/ \E item_id \in ItemTargets, quantity_change \in Changes :
          UpdateInventoryGet(item_id, quantity_change)
    \/ \E o \in 1..MaxInvOps : UpdateInventoryCommit(o)

InventorySpec == InventoryInit /\ [][InventoryNext]_vars

(* ======================================================================= *)
(*        Capability test  (agents/inventory_agent.py, can_handle)         *)
(* ======================================================================= *)
\* A message is the sequence of its characters.

\* the longest message, in words
MaxWords == 3

\* the words messages are made of
Vocabulary ==
    {<<"L", "e", "s", "s", "o", "n">>,
     <<"r", "e", "s", "t", "o", "c", "k">>, <<"s", "t", "o", "c", "k">>,
     <<"c", "h", "e", "c", "k">>, <<"n", "e", "e", "d">>,
     <<"m", "o", "r", "e">>, <<"a", "d", "d">>, <<"#">>, <<"t", "o">>}

\* words joined by single spaces
RECURSIVE Join(_)
Join(ws) == IF Len(ws) = 1 THEN ws[1] ELSE ws[1] \o <<" ">> \o Join(Tail(ws))

\* the messages can_handle is called with
UserMessages == {Join(ws) : ws \in SeqsUpTo(Vocabulary, MaxWords) \ {<<>>}}

\* str.lower() on the characters that occur
LowerChar(ch) == IF ch = "L" THEN "l" ELSE ch

Lower(s) == [i \in 1..Len(s) |-> LowerChar(s[i])]

\* str.lstrip('#')
RECURSIVE LStripMarker(_)
LStripMarker(s) == IF s # <<>> /\ Head(s) = "#" THEN LStripMarker(Tail(s)) ELSE s

\* message_lower = user_message.lower().strip().lstrip('#').strip()
MessageLower(user_message) == Strip(LStripMarker(Strip(Lower(user_message))))

\* s[i:i+len(term)] == term
OccursAt(s, term, i) ==
    i + Len(term) - 1 <= Len(s) /\ SubSeq(s, i, i + Len(term) - 1) = term

\* term in s
In(term, s) == \E i \in 1..Len(s) : OccursAt(s, term, i)

\* re.search(pattern, s) for a pattern (a|b).*(c|d).*...: one alternative of
\* each group occurs, in the order of the groups and without overlap
RECURSIVE SearchFrom(_, _, _, _)
SearchFrom(pattern, s, k, from) ==
    \/ k > Len(pattern)
    \/ \E term \in pattern[k], i \in from..Len(s) :
          OccursAt(s, term, i) /\ SearchFrom(pattern, s, k + 1, i + Len(term))

Search(pattern, s) == SearchFrom(pattern, s, 1, 1)

\* self.keywords
keywords ==
    {<<"i", "n", "v", "e", "n", "t", "o", "r", "y">>,
     <<"s", "t", "o", "c", "k">>,
     <<"s", "u", "p", "p", "l", "i", "e", "s">>,
     <<"m", "a", "t", "e", "r", "i", "a", "l", "s">>,
     <<"i", "t", "e", "m", "s">>, <<"p", "e", "n", "c", "i", "l", "s">>,
     <<"c", "h", "e", "m", "i", "s", "t", "r", "y", " ", "s", "e", "t">>,
     <<"e", "q", "u", "i", "p", "m", "e", "n", "t">>,
     <<"t", "o", "o", "l", "s">>, <<"l", "o", "w", " ", "o", "n">>,
     <<"n", "e", "e", "d">>, <<"o", "r", "d", "e", "r">>,
     <<"s", "h", "o", "r", "t", "a", "g", "e">>,
     <<"a", "v", "a", "i", "l", "a", "b", "l", "e">>,
     <<"c", "h", "e", "c", "k", " ", "s", "t", "o", "c", "k">>,
     <<"h", "o", "w", " ", "m", "a", "n", "y">>,
     <<"c", "o", "u", "n", "t">>,
     <<"q", "u", "a", "n", "t", "i", "t", "y">>}

lesson_terms ==
    {<<"l", "e", "s", "s", "o", "n">>,
     <<"c", "u", "r", "r", "i", "c", "u", "l", "u", "m">>,
     <<"p", "l", "a", "n">>,
     <<"w", "o", "r", "k", "s", "h", "e", "e", "t">>,
     <<"a", "c", "t", "i", "v", "i", "t", "y">>,
     <<"g", "r", "a", "d", "e">>}

strong_inventory_terms ==
    {<<"i", "n", "v", "e", "n", "t", "o", "r", "y">>,
     <<"s", "t", "o", "c", "k">>,
     <<"s", "u", "p", "p", "l", "i", "e", "s">>,
     <<"m", "a", "t", "e", "r", "i", "a", "l", "s">>,
     <<"o", "r", "d", "e", "r">>, <<"r", "e", "s", "t", "o", "c", "k">>}

inventory_words ==
    {<<"s", "t", "o", "c", "k">>,
     <<"i", "n", "v", "e", "n", "t", "o", "r", "y">>,
     <<"s", "u", "p", "p", "l", "i", "e", "s">>,
     <<"m", "a", "t", "e", "r", "i", "a", "l", "s">>,
     <<"i", "t", "e", "m", "s">>,
     <<"a", "v", "a", "i", "l", "a", "b", "l", "e">>, <<"a", "d", "d">>,
     <<"c", "h", "e", "c", "k">>}

\* high_confidence_patterns, each a sequence of groups of alternatives; a
\* group "need (more|to order)" without ".*" is the set of its literal texts
high_confidence_patterns ==
    <<
      <<{<<"c", "h", "e", "c", "k">>, <<"w", "h", "a", "t", "'", "s">>,
          <<"s", "h", "o", "w">>, <<"g", "e", "t">>,
          <<"t", "e", "l", "l">>, <<"d", "i", "s", "p", "l", "a", "y">>,
          <<"l", "i", "s", "t">>},
        {<<"s", "t", "o", "c", "k">>,
          <<"i", "n", "v", "e", "n", "t", "o", "r", "y">>,
          <<"s", "u", "p", "p", "l", "i", "e", "s">>,
          <<"a", "v", "a", "i", "l", "a", "b", "l", "e">>,
          <<"i", "t", "e", "m", "s">>}>>,
      <<{<<"l", "o", "w", " ", "o", "n">>,
          <<"s", "h", "o", "r", "t", " ", "o", "n">>,
          <<"r", "u", "n", "n", "i", "n", "g", " ", "l", "o", "w">>,
          <<"o", "u", "t", " ", "o", "f">>},
        {<<"s", "t", "o", "c", "k">>,
          <<"i", "n", "v", "e", "n", "t", "o", "r", "y">>,
          <<"s", "u", "p", "p", "l", "i", "e", "s">>,
          <<"m", "a", "t", "e", "r", "i", "a", "l", "s">>,
          <<"i", "t", "e", "m", "s">>}>>,
      <<{<<"n", "e", "e", "d", " ", "m", "o", "r", "e">>,
          <<"n", "e", "e", "d", " ", "t", "o", " ", "r", "e", "s", "t", "o", "c", "k">>,
          <<"n", "e", "e", "d", " ", "t", "o", " ", "r", "e", "o", "r", "d", "e", "r">>,
          <<"n", "e", "e", "d", " ", "t", "o", " ", "o", "r", "d", "e", "r">>}>>,
      <<{<<"h", "o", "w", " ", "m", "a", "n", "y", " ">>},
        {<<" ", "d", "o", " ", "w", "e", " ", "h", "a", "v", "e">>,
          <<" ", "a", "v", "a", "i", "l", "a", "b", "l", "e">>,
          <<" ", "i", "n", " ", "s", "t", "o", "c", "k">>}>>,
      <<{<<"o", "r", "d", "e", "r">>,
          <<"p", "u", "r", "c", "h", "a", "s", "e">>, <<"b", "u", "y">>,
          <<"g", "e", "t", " ", "m", "o", "r", "e">>, <<"a", "d", "d">>,
          <<"n", "e", "w">>},
        {<<"t", "o">>, <<"i", "n">>},
        {<<"i", "n", "v", "e", "n", "t", "o", "r", "y">>,
          <<"s", "t", "o", "c", "k">>}>>,
      <<{<<"i", "n", "v", "e", "n", "t", "o", "r", "y", " ", "c", "h", "e", "c", "k">>,
          <<"i", "n", "v", "e", "n", "t", "o", "r", "y", " ", "s", "t", "a", "t", "u", "s">>,
          <<"i", "n", "v", "e", "n", "t", "o", "r", "y", " ", "r", "e", "p", "o", "r", "t">>,
          <<"i", "n", "v", "e", "n", "t", "o", "r", "y", " ", "l", "i", "s", "t">>}>>,
      <<{<<"a", "d", "d">>, <<"n", "e", "w">>,
          <<"r", "e", "g", "i", "s", "t", "e", "r">>},
        {<<"0">>, <<"1">>, <<"2">>, <<"3">>, <<"4">>, <<"5">>, <<"6">>,
          <<"7">>, <<"8">>, <<"9">>},
        {<<"t", "o">>, <<"i", "n">>},
        {<<"i", "n", "v", "e", "n", "t", "o", "r", "y">>,
          <<"s", "t", "o", "c", "k">>}>>,
      <<{<<"#">>},
        {<<"s", "t", "o", "c", "k">>,
          <<"i", "n", "v", "e", "n", "t", "o", "r", "y">>,
          <<"a", "d", "d">>, <<"c", "h", "e", "c", "k">>,
          <<"a", "v", "a", "i", "l", "a", "b", "l", "e">>}>>,
      <<{<<"p", "e", "n", "c", "i", "l", "s">>,
          <<"m", "i", "c", "r", "o", "s", "c", "o", "p", "e", "s">>,
          <<"k", "i", "t", "s">>,
          <<"e", "q", "u", "i", "p", "m", "e", "n", "t">>,
          <<"m", "a", "t", "e", "r", "i", "a", "l", "s">>,
          <<"s", "u", "p", "p", "l", "i", "e", "s">>},
        {<<"a", "v", "a", "i", "l", "a", "b", "l", "e">>,
          <<"s", "t", "o", "c", "k">>,
          <<"i", "n", "v", "e", "n", "t", "o", "r", "y">>}>>>>

\* the guard that returns every lesson request without a strong inventory
\* term, whatever else the message holds
CrossDomainGuardNoStrongTerms(message_lower) ==
    \E term \in lesson_terms : In(term, message_lower)

\* if any(term in message_lower for term in lesson_terms):
\*     if not any(term in message_lower for term in strong_inventory_terms):
CrossDomainGuard(message_lower) ==
    /\ \E term \in lesson_terms : In(term, message_lower)
    /\ ~ \E term \in strong_inventory_terms : In(term, message_lower)

\* for pattern in high_confidence_patterns: if re.search(pattern, message_lower)
HighConfidence(message_lower) ==
    \E p \in 1..Len(high_confidence_patterns) :
        Search(high_confidence_patterns[p], message_lower)

\* keyword_matches = sum(1 for kw in self.keywords if kw in message_lower)
KeywordMatches(message_lower) ==
    Cardinality({kw \in keywords : In(kw, message_lower)})

\* any(word in message_lower for word in inventory_words)
WeakCue(message_lower) == \E word \in inventory_words : In(word, message_lower)

\* the capability test that counts keywords before it tries the patterns
InventoryCanHandleKeywordsFirst(user_message) ==
    LET message_lower == MessageLower(user_message)
    IN  IF CrossDomainGuard(message_lower) THEN <<FALSE, 0>>
        ELSE IF KeywordMatches(message_lower) >= 2 THEN <<TRUE, 7>>
        ELSE IF KeywordMatches(message_lower) = 1 THEN <<TRUE, 5>>
        ELSE IF HighConfidence(message_lower) THEN <<TRUE, 9>>
        ELSE IF WeakCue(message_lower) THEN <<TRUE, 4>>
        ELSE <<FALSE, 0>>

\* InventoryAgent.can_handle: the pair (flag, confidence in tenths)
InventoryCanHandle(user_message) ==
    LET message_lower == MessageLower(user_message)
    IN  IF CrossDomainGuard(message_lower) THEN <<FALSE, 0>>
        ELSE IF HighConfidence(message_lower) THEN <<TRUE, 9>>
        ELSE IF KeywordMatches(message_lower) >= 2 THEN <<TRUE, 7>>
        ELSE IF KeywordMatches(message_lower) = 1 THEN <<TRUE, 5>>
        ELSE IF WeakCue(message_lower) THEN <<TRUE, 4>>
        ELSE <<FALSE, 0>>

\* a call of can_handle about to be made
CanHandleCalls == [op : {"can_handle"}, user_message : UserMessages]

\* one call of InventoryAgent.can_handle
CanHandleStep ==
    /\ hPhase = "ready"
    /\ hResult' = [op |-> "can_handle", returned |-> InventoryCanHandle(hCall.user_message)]
    /\ hPhase' = "done"
    /\ UNCHANGED <<hCall, collection, streamVars, routerVars, invVars>>

CanHandleInit ==
    /\ StreamEmpty
    /\ RouterIdle
    /\ InventoryIdle
    /\ collection = "absent"
    /\ hCall \in CanHandleCalls
    /\ hPhase = "ready"
    /\ hResult = [op |-> "none"]

CanHandleNext == CanHandleStep

CanHandleSpec == CanHandleInit /\ [][CanHandleNext]_vars

(* ======================================================================= *)
(*     Stock facts  (agents/inventory_agent.py, the facts of an item)      *)
(* ======================================================================= *)

\* the largest stock level and threshold tried, beside those of the examples
MaxLevel == 16

\* quantities and minimum thresholds of an item; both columns are unconstrained
Levels == ((0 - MaxLevel)..MaxLevel) \cup {50, 150}

\* _handle_stock_check: "adequate" if item.quantity > item.min_quantity else "low"
StockStatus(quantity, min_quantity) ==
    IF quantity > min_quantity THEN "adequate" ELSE "low"

\* _handle_low_stock_alert: item.quantity < item.min_quantity * 0.5
IsCritical(quantity, min_quantity) == 2 * quantity < min_quantity

\* the low flag that is raised only below the threshold
IsLowBelow(quantity, min_quantity) == quantity < min_quantity

\* _handle_low_stock_alert: item.quantity <= item.min_quantity
IsLow(quantity, min_quantity) == quantity <= min_quantity

\* the facts of one item about to be prepared on one of the two paths
StockFactCalls ==
    [op : {"stock_check", "low_stock_alert"}, quantity : Levels, min_quantity : Levels]

\* _handle_stock_check prepares the facts of an item
StockCheckFacts ==
    /\ hPhase = "ready"
    /\ hCall.op = "stock_check"
    /\ hResult' = [op |-> "stock_check",
                   status |-> StockStatus(hCall.quantity, hCall.min_quantity)]
    /\ hPhase' = "done"
    /\ UNCHANGED <<hCall, collection, streamVars, routerVars, invVars>>

\* _handle_low_stock_alert prepares the facts of an item
LowStockFacts ==
    /\ hPhase = "ready"
    /\ hCall.op = "low_stock_alert"
    /\ hResult' = [op |-> "low_stock_alert",
                   is_critical |-> IsCritical(hCall.quantity, hCall.min_quantity),
                   is_low |-> IsLow(hCall.quantity, hCall.min_quantity)]
    /\ hPhase' = "done"
    /\ UNCHANGED <<hCall, collection, streamVars, routerVars, invVars>>

StockFactsInit ==
    /\ StreamEmpty
    /\ RouterIdle
    /\ InventoryIdle
    /\ collection = "absent"
    /\ hCall \in StockFactCalls
    /\ hPhase = "ready"
    /\ hResult = [op |-> "none"]

StockFactsNext == StockCheckFacts \/ LowStockFacts

StockFactsSpec == StockFactsInit /\ [][StockFactsNext]_vars

(* ======================================================================= *)
(*   Summaries  (agents/lesson_plan_agent.py, the text shown for a plan)   *)
(* ======================================================================= *)
\* A text is the sequence of its characters.  Lengths are counted in units
\* of 50 characters: the 100, 200 and 500 of the source are 2, 4 and 10.

\* the longest retrieved text
MaxTextLen == 12

\* if not doc_content or len(doc_content) < 100: return doc_content
SummaryMinLength == 2

\* if raw_text and len(raw_text) > 200: display_text = await summarize_lesson_plan(...)
SummarizeAbove == 4

\* truncate_text(doc_content, max_length=500)
FallbackMaxLength == 10

\* the characters of a text: a letter, a space, two sentence terminators
TextChars == {"a", " ", ".", "?"}

\* the texts of a length: letters, with any characters at up to two places
TextsOfLen(n) ==
    { [i \in 1..n |-> IF i = p THEN c ELSE IF i = q THEN d ELSE "a"] :
        p \in 1..n, q \in 1..n, c \in TextChars, d \in TextChars }

\* the texts a query returns
Texts == UNION {TextsOfLen(n) : n \in 1..MaxTextLen}

\* str.rfind(ch): the last index of ch counted from 0, or -1
RFind(s, ch) ==
    LET at == {i \in 1..Len(s) : s[i] = ch}
    IN  IF at = {} THEN 0 - 1 ELSE (CHOOSE i \in at : \A j \in at : j <= i) - 1

\* max(a, b, c)
Max3(a, b, c) == CHOOSE x \in {a, b, c} : \A y \in {a, b, c} : y <= x

\* the marker appended to a cut text
Ellipsis == <<".", ".", ".">>

\* the truncation that always cuts at the last space when no sentence ends
\* close enough
TruncateTextAtLastSpace(text, max_length) ==
    IF text = <<>> THEN <<>>
    ELSE IF Len(text) <= max_length THEN text
    ELSE LET truncated == SubSeq(text, 1, max_length)
             last_sentence == Max3(RFind(truncated, "."), RFind(truncated, "!"),
                                   RFind(truncated, "?"))
             last_space == RFind(truncated, " ")
         IN  IF 10 * last_sentence > max_length * 6
             THEN SubSeq(truncated, 1, last_sentence + 1) \o Ellipsis
             ELSE IF last_space >= 0
             THEN SubSeq(truncated, 1, last_space) \o Ellipsis
             ELSE truncated \o Ellipsis

\* truncate_text(text, max_length); the factors 0.6 and 0.7 are 6 and 7 tenths
TruncateText(text, max_length) ==
    IF text = <<>> THEN <<>>
    ELSE IF Len(text) <= max_length THEN text
    ELSE LET truncated == SubSeq(text, 1, max_length)
             last_sentence == Max3(RFind(truncated, "."), RFind(truncated, "!"),
                                   RFind(truncated, "?"))
             last_space == RFind(truncated, " ")
         IN  IF 10 * last_sentence > max_length * 6
             THEN SubSeq(truncated, 1, last_sentence + 1) \o Ellipsis
             ELSE IF 10 * last_space > max_length * 7
             THEN SubSeq(truncated, 1, last_space) \o Ellipsis
             ELSE truncated \o Ellipsis

\* what chat_completion returns, stripped and without its prefixes
GeneratedSummary == <<"s", "u", "m">>

\* summarize_lesson_plan(doc_content, user_query) with its text: the summary,
\* or the truncation when chat_completion raises
SummarizeLessonPlanText(doc_content, gen) ==
    IF doc_content = <<>> \/ Len(doc_content) < SummaryMinLength THEN doc_content
    ELSE IF gen = "ok" THEN GeneratedSummary
    ELSE TruncateText(doc_content, FallbackMaxLength)

\* display_text of one retrieved document
DisplayText(raw_text, gen) ==
    IF raw_text # <<>> /\ Len(raw_text) > SummarizeAbove
    THEN SummarizeLessonPlanText(raw_text, gen)
    ELSE raw_text

\* one retrieved text about to be shown, and what chat_completion does
DisplayCalls == [op : {"display"}, raw_text : Texts, gen : CallOutcomes]

\* the loop body of LessonPlanAgent.execute for one document
DisplayStep ==
    /\ hPhase = "ready"
    /\ hResult' = [op |-> "display",
                   display_text |-> DisplayText(hCall.raw_text, hCall.gen)]
    /\ hPhase' = "done"
    /\ UNCHANGED <<hCall, collection, streamVars, routerVars, invVars>>

DisplayInit ==
    /\ StreamEmpty
    /\ RouterIdle
    /\ InventoryIdle
    /\ collection = "absent"
    /\ hCall \in DisplayCalls
    /\ hPhase = "ready"
    /\ hResult = [op |-> "none"]

DisplayNext == DisplayStep

DisplaySpec == DisplayInit /\ [][DisplayNext]_vars

(* ======================================================================= *)
(*                               Properties                                *)
(* ======================================================================= *)

\* handlers of the registry that claim the routed message
Claimers == {i \in 1..Len(rAgents) : rAgents[i].can = "yes"}

\* every can_handle call of the run returned
AllCanHandleReturned == \A i \in 1..Len(rAgents) : rAgents[i].can # "raise"

\* C1: for every registry (handlers whose can_handle or execute raises
\* included), route_message returns a RouteResult with a boolean success and
\* lets no exception reach its caller.
C1_RouteNeverRaises ==
    rPhase = "done" => (~rResult.raised /\ rResult.success \in BOOLEAN)

\* the claimer that has to win: no claimer is more confident, and none of the
\* equally confident ones was registered before it
IsWinner(w) ==
    /\ w \in Claimers
    /\ \A j \in Claimers :
          \/ rAgents[w].conf > rAgents[j].conf
          \/ (rAgents[w].conf = rAgents[j].conf /\ w <= j)

\* C2: when two or more handlers claim a message, the handler route_message
\* executes is the one with the highest confidence, and among several with
\* that confidence the one registered first; it executes exactly one handler
\* whenever every can_handle call returned.
C2_HighestConfidenceEarliestWins ==
    (rPhase = "done" /\ Cardinality(Claimers) >= 2) =>
        /\ rResult.executed # <<>> =>
              (Len(rResult.executed) = 1 /\ IsWinner(rResult.executed[1]))
        /\ AllCanHandleReturned => rResult.executed # <<>>

\* C2 happens: two handlers tie at the top behind a less confident one
\* registered first, and the earlier of the two ran.
C2_Witness ==
    /\ rPhase = "done"
    /\ Len(rAgents) = 3
    /\ Claimers = {1, 2, 3}
    /\ rAgents[1].conf < rAgents[2].conf
    /\ rAgents[2].conf = rAgents[3].conf
    /\ rResult.executed = <<2>>

\* the bot messages paired with user message message_id: a bot message with a
\* greater id, no bot message nearer, no user message strictly between
PairedBots(ms, message_id) ==
    {b \in ms :
        /\ b.is_bot
        /\ b.id > message_id
        /\ ~\E x \in ms : x.is_bot /\ x.id > message_id /\ x.id < b.id
        /\ ~\E x \in ms : ~x.is_bot /\ x.id > message_id /\ x.id < b.id}

\* the events a step broadcast
NewEvents == SubSeq(events', Len(events) + 1, Len(events'))

\* the step serves a request of this kind
Served(kind) == opCount' = opCount + 1 /\ lastOp'.kind = kind

\* the step serves a request of this kind and the request is accepted
Accepted(kind) == Served(kind) /\ lastOp'.status = 200

\* the step serves an edit of message_id by caller with this content
IsEdit(caller, message_id, content) ==
    Served("edit") /\ EditMessage(caller, message_id, content)

\* the step serves a delete of message_id by caller
IsDelete(caller, message_id) ==
    Served("delete") /\ DeleteSingleMessage(caller, message_id)

\* the step serves a create by caller with this content
IsCreate(caller, content) == Served("create") /\ PostMessage(caller, content)

\* the step is a step of a background unit
UnitStep == opCount' = opCount /\ units' # units

\* C3: an accepted edit of M with a paired bot message B removes B and
\* replaces M's content in the same commit: the first stream that shows the
\* new content no longer holds B.
C3_EditRemovesPairedBot ==
    [][\A caller \in Users, message_id \in Targets, content \in Contents :
          (Accepted("edit") /\ IsEdit(caller, message_id, content)) =>
              \A b \in PairedBots(messages, message_id) :
                  /\ ~HasRow(messages', b.id)
                  /\ HasRow(messages', message_id)
                  /\ Row(messages', message_id).content = content]_vars

\* C3 happens: an edit was accepted, its scan found a reply, the reply is gone
\* and the edited message is still there.
C3_Witness ==
    /\ lastOp.kind = "edit"
    /\ lastOp.status = 200
    /\ lastOp.bot # None
    /\ ~HasRow(messages, lastOp.bot)
    /\ HasRow(messages, lastOp.target)

\* C4: an accepted delete of M removes M and its paired bot message, and
\* broadcasts message_deleted for M and then message_deleted for the bot
\* message; without a paired bot message it broadcasts the one event for M.
C4_DeleteRemovesBothAndAnnouncesInOrder ==
    [][\A caller \in Users, message_id \in Targets :
          (Accepted("delete") /\ IsDelete(caller, message_id)) =>
              LET paired == PairedBots(messages, message_id)
              IN  /\ ~HasRow(messages', message_id)
                  /\ \A b \in paired :
                        /\ ~HasRow(messages', b.id)
                        /\ NewEvents = <<DeletedEvent(message_id), DeletedEvent(b.id)>>
                  /\ paired = {} => NewEvents = <<DeletedEvent(message_id)>>]_vars

\* C4 happens: a delete was accepted and announced two deletions, the user
\* message's before the bot message's.
C4_Witness ==
    /\ lastOp.kind = "delete"
    /\ lastOp.status = 200
    /\ lastOp.bot # None
    /\ Len(events) >= 2
    /\ events[Len(events) - 1] = DeletedEvent(lastOp.target)
    /\ events[Len(events)] = DeletedEvent(lastOp.bot)

\* an accepted edit or delete of message_id by caller
AcceptedEditOrDelete(caller, message_id) ==
    \/ Accepted("delete") /\ IsDelete(caller, message_id)
    \/ Accepted("edit") /\ \E content \in Contents : IsEdit(caller, message_id, content)

\* C5: an edit or delete of M removes no bot message with a smaller id and no
\* bot message that a user message separates from M; every row other than M
\* and M's paired bot message is the same before and after.
C5_EditDeleteFrame ==
    [][\A caller \in Users, message_id \in Targets :
          AcceptedEditOrDelete(caller, message_id) =>
              /\ \A x \in messages :
                    (x.id # message_id /\ x \notin PairedBots(messages, message_id))
                        => x \in messages'
              /\ \A y \in messages' : y.id = message_id \/ y \in messages
              /\ \A b \in messages :
                    (b.is_bot /\ (b.id < message_id
                                  \/ UserBetween(messages, message_id, b.id)))
                        => b \in messages']_vars

\* C5 happens: an edit or delete was accepted while the stream held a bot
\* message that a user message separates from the target, and it is still there.
C5_Witness ==
    /\ lastOp.kind \in {"edit", "delete"}
    /\ lastOp.status = 200
    /\ \E b \in messages :
          b.is_bot /\ b.id > lastOp.target /\ UserBetween(messages, lastOp.target, b.id)

\* C6 as stated: in an accepted edit of a message with a paired bot message,
\* message_deleted for the bot message is broadcast before message_edited.
C6_DeletedBeforeEdited ==
    [][\A caller \in Users, message_id \in Targets, content \in Contents :
          (Accepted("edit") /\ IsEdit(caller, message_id, content)) =>
              \A b \in PairedBots(messages, message_id) :
                  \E i, j \in 1..Len(NewEvents) :
                      /\ i < j
                      /\ NewEvents[i] = DeletedEvent(b.id)
                      /\ NewEvents[j].type = "message_edited"]_vars

\* C6 amended: in an accepted edit of a message with a paired bot message,
\* message_edited for the user message is broadcast first and message_deleted
\* for the bot message second.
C6_EditedBeforeDeleted ==
    [][\A caller \in Users, message_id \in Targets, content \in Contents :
          (Accepted("edit") /\ IsEdit(caller, message_id, content)) =>
              \A b \in PairedBots(messages, message_id) :
                  /\ Len(NewEvents) = 2
                  /\ NewEvents[1].type = "message_edited"
                  /\ NewEvents[1].message.id = message_id
                  /\ NewEvents[1].message.content = content
                  /\ NewEvents[2] = DeletedEvent(b.id)]_vars

\* C6 happens: the last two broadcasts are the edit of a message and the
\* deletion of the reply its scan found.
C6_Witness ==
    /\ lastOp.kind = "edit"
    /\ lastOp.status = 200
    /\ lastOp.bot # None
    /\ Len(events) >= 2
    /\ events[Len(events) - 1].type = "message_edited"
    /\ events[Len(events) - 1].message.id = lastOp.target
    /\ events[Len(events)] = DeletedEvent(lastOp.bot)

\* C7: an edit or delete whose target is a bot message or a message of
\* another user is rejected, and the rejection changes no message, broadcasts
\* nothing and creates no task.
C7_ForeignOrBotTargetRejected ==
    [][\A caller \in Users, message_id \in {lastOp'.target} \cap Targets :
          ( /\ \/ IsDelete(caller, message_id)
               \/ \E content \in Contents : IsEdit(caller, message_id, content)
            /\ HasRow(messages, message_id)
            /\ \/ Row(messages, message_id).is_bot
               \/ Row(messages, message_id).user_id # caller )
          => /\ lastOp'.status = 403
             /\ UNCHANGED <<messages, nextId, events, units>>]_vars

\* C7 happens: the last request named an existing message and got 403.
C7_Witness ==
    /\ lastOp.kind \in {"edit", "delete"}
    /\ lastOp.status = 403
    /\ HasRow(messages, lastOp.target)
    /\ ~Row(messages, lastOp.target).is_bot

\* the trigger rule in words: after the leading whitespace comes the marker,
\* and something other than whitespace follows it
CarriesTrigger(content) ==
    \E i \in 1..Len(content) :
        /\ content[i] = "#"
        /\ \A j \in 1..(i - 1) : content[j] \in Whitespace
        /\ \E k \in (i + 1)..Len(content) : content[k] \notin Whitespace

\* C8: create stores and broadcasts the user message whatever its content,
\* and creates exactly one task when the content carries the trigger and
\* none otherwise.
C8_CreatePersistsBroadcastsSpawns ==
    [][\A caller \in Users, content \in Contents :
          IsCreate(caller, content) =>
              /\ messages' = messages \cup {UserMsg(nextId, caller, content)}
              /\ ~HasRow(messages, nextId)
              /\ Len(NewEvents) = 1
              /\ NewEvents[1].type = "message"
              /\ NewEvents[1].message.id = nextId
              /\ NewEvents[1].message.content = content
              /\ ~NewEvents[1].message.is_bot
              /\ Len(units') = Len(units) + (IF CarriesTrigger(content) THEN 1 ELSE 0)]_vars

\* C8 happens: the last request created a message that holds the marker and
\* nothing after it, and no task exists.
C8_Witness ==
    /\ lastOp.kind = "create"
    /\ HasRow(messages, lastOp.target)
    /\ Row(messages, lastOp.target).content = <<" ", "#", " ">>
    /\ units = <<>>

\* the 'message' events broadcast for message id
MessageEventsFor(id) ==
    {i \in 1..Len(events) : events[i].type = "message" /\ events[i].message.id = id}

\* C9: a unit that runs to the end stores exactly one bot message (no author,
\* is_bot true) and broadcasts exactly one 'message' event for it, whether
\* the router returned or raised; it touches no other message.
C9_UnitOneBotMessageOneEvent ==
    /\ [][\A u \in 1..MaxUnits :
            /\ (UnitStep /\ UnitAnswer(u)) =>
                  /\ \E b \in messages' :
                        /\ messages' = messages \cup {b}
                        /\ b.id = nextId
                        /\ b.is_bot
                        /\ b.user_id = None
                  /\ ~HasRow(messages, nextId)
                  /\ units'[u].bot_id = nextId
                  /\ events' = events
            /\ (UnitStep /\ UnitBroadcast(u)) =>
                  /\ messages' = messages
                  /\ units'[u].pc = "done" =>
                        /\ Len(NewEvents) = 1
                        /\ NewEvents[1].type = "message"
                        /\ NewEvents[1].message.id = units[u].bot_id
                        /\ NewEvents[1].message.is_bot
                        /\ NewEvents[1].message.content
                              = Row(messages, units[u].bot_id).content]_vars
    /\ [](\A u \in 1..Len(units) :
            units[u].pc = "done" =>
                /\ Cardinality(MessageEventsFor(units[u].bot_id)) = 1
                /\ \A v \in 1..Len(units) :
                      (v # u /\ units[v].pc \in {"committed", "done"})
                          => units[v].bot_id # units[u].bot_id)

\* C9 happens: a unit whose router call raised has finished, and its reply
\* is in the stream and was broadcast once.
C9_Witness ==
    \E u \in 1..Len(units) :
        /\ units[u].pc = "done"
        /\ HasRow(messages, units[u].bot_id)
        /\ Row(messages, units[u].bot_id).is_bot
        /\ Row(messages, units[u].bot_id).content
              = <<"Sorry, I encountered an error: ", "can_handle failed">>
        /\ Cardinality(MessageEventsFor(units[u].bot_id)) = 1

\* unit u has stored its bot message and broadcast it
Replied(u) ==
    /\ u \in 1..Len(units)
    /\ units[u].pc = "done"
    /\ units[u].bot_id # None
    /\ MessageEventsFor(units[u].bot_id) # {}

\* storage raised inside unit u (at its commit, or at the refresh of a row
\* that is gone)
StorageFailed(u) == u \in 1..Len(units) /\ units[u].failed # "no"

MessageEventIndex(id) ==
    IF MessageEventsFor(id) = {} THEN 0 ELSE CHOOSE i \in MessageEventsFor(id) : TRUE

\* C11: an accepted edit creates exactly one fresh task when the new content
\* carries the trigger (marker, then non-empty text) and none otherwise,
\* whatever the old content was and whether or not a reply was paired.
C11_EditSpawnsIffTrigger ==
    [][\A caller \in Users, message_id \in {lastOp'.target} \cap Targets,
          content \in Contents :
          (Accepted("edit") /\ IsEdit(caller, message_id, content)) =>
              IF CarriesTrigger(content)
              THEN /\ Len(units') = Len(units) + 1
                   /\ SubSeq(units', 1, Len(units)) = units
                   /\ units'[Len(units')].pc = "spawned"
                   /\ units'[Len(units')].bot_id = None
                   /\ units'[Len(units')].trigger = message_id
              ELSE units' = units]_vars

\* C11 happens: a message created without the marker and never answered was
\* edited to carry the trigger, and the edit created the only task.
C11_Witness ==
    /\ lastOp.kind = "edit"
    /\ lastOp.status = 200
    /\ lastOp.bot = None
    /\ Len(units) = 1
    /\ units[1].trigger = lastOp.target
    /\ MessageEventIndex(lastOp.target) # 0
    /\ ~CarriesTrigger(events[MessageEventIndex(lastOp.target)].message.content)
    /\ HasRow(messages, lastOp.target)
    /\ CarriesTrigger(Row(messages, lastOp.target).content)

MisPaired ==
    /\ lastOp.kind \in {"edit", "delete"}
    /\ lastOp.status = 200
    /\ lastOp.bot # None
    /\ \E u \in 1..Len(units) :
          units[u].bot_id = lastOp.bot /\ units[u].trigger # lastOp.target

\* a task created for M broadcast its reply, M was edited or deleted after
\* that, and the reply is still in the stream
FailedToRemove ==
    \E u \in 1..Len(units) :
        /\ units[u].pc = "done"
        /\ HasRow(messages, units[u].bot_id)
        /\ \E j \in 1..Len(events) :
              /\ j > MessageEventIndex(units[u].bot_id)
              /\ \/ events[j] = DeletedEvent(units[u].trigger)
                 \/ /\ events[j].type = "message_edited"
                    /\ events[j].message.id = units[u].trigger

C14_ExecuteFailureReported ==
    (rPhase = "done" /\ AllCanHandleReturned) =>
        \A w \in Claimers :
            (IsWinner(w) /\ rAgents[w].exec = "raise") =>
                /\ ~rResult.raised
                /\ rResult.success = FALSE
                /\ rResult.response[1] = "Error executing agent: "
                /\ rResult.agent_used = AgentName(w)
                /\ rResult.confidence = rAgents[w].conf
                /\ rResult.executed = <<w>>
                /\ ~rResult.fallback

\* C14 happens: the most confident of two claimers raised, the other one
\* would have answered, and the result reports the failure of the first.
C14_Witness ==
    /\ rPhase = "done"
    /\ Len(rAgents) = 2
    /\ Claimers = {1, 2}
    /\ rAgents[1].conf < rAgents[2].conf
    /\ rAgents[2].exec = "raise"
    /\ rAgents[1].exec = "ok"
    /\ rResult.agent_used = AgentName(2)
    /\ rResult.success = FALSE
    /\ rResult.response[1] = "Error executing agent: "

\* the run ended in the generic-completion fallback
FellBack == rPhase = "done" /\ ~rResult.raised /\ rResult.fallback

\* C15 as stated: every result of the fallback carries confidence 0.3, when
\* the call succeeds and when it fails (success false, response beginning
\* "Sorry, I encountered an error: ").
C15_FallbackConfidenceFixed ==
    FellBack =>
        /\ rResult.confidence = 3
        /\ rFallback = "raise" =>
              /\ rResult.success = FALSE
              /\ rResult.response[1] = "Sorry, I encountered an error: "

\* C15 amended: a successful fallback carries confidence 0.3 and success
\* true; a failed fallback carries confidence 0.0, success false and a
\* response beginning "Sorry, I encountered an error: ".
C15_FallbackConfidenceByOutcome ==
    FellBack =>
        /\ rFallback = "ok" =>
              (rResult.confidence = 3 /\ rResult.success = TRUE)
        /\ rFallback = "raise" =>
              /\ rResult.confidence = 0
              /\ rResult.success = FALSE
              /\ rResult.response[1] = "Sorry, I encountered an error: "

\* C15 happens: no handler claimed the message and the fallback call failed.
C15_Witness ==
    /\ FellBack
    /\ Claimers = {}
    /\ Len(rAgents) >= 1
    /\ rFallback = "raise"
    /\ rResult.success = FALSE
    /\ rResult.confidence = 0

\* C18: a commit that fails inside a task ends the task: it stores no bot
\* message, broadcasts nothing, is not tried again, and changes neither the
\* stored messages of the finished requests nor any other task.
C18_StorageFailureAbortsUnit ==
    /\ [][\A u \in 1..Len(units) :
            /\ (UnitStep /\ UnitCommitFails(u)) =>
                  /\ messages' = messages
                  /\ events' = events
                  /\ nextId' = nextId
                  /\ lastOp' = lastOp
                  /\ units'[u].pc = "aborted"
                  /\ units'[u].bot_id = None
                  /\ \A v \in 1..Len(units) : v # u => units'[v] = units[v]
            /\ units[u].pc = "aborted" => units'[u] = units[u]]_vars
    /\ [](\A u \in 1..Len(units) :
            units[u].failed = "commit" =>
                /\ units[u].pc = "aborted"
                /\ units[u].bot_id = None)

\* C18 happens: the commit of one task failed, its triggering message is
\* stored, and another task has stored and broadcast its reply.
C18_Witness ==
    \E u, v \in 1..Len(units) :
        /\ units[u].failed = "commit"
        /\ units[u].pc = "aborted"
        /\ HasRow(messages, units[u].trigger)
        /\ v # u
        /\ Replied(v)
        /\ HasRow(messages, units[v].bot_id)

\* C16 as stated: execute of a handler never raises, and a failure of a call
\* it makes (storage, embedding, vector index, generation) ends in an
\* AgentResult with success false.
C16_ExecuteNeverRaises ==
    hPhase = "done" =>
        /\ ~hResult.outcome.raised
        /\ CallFailed(hCall) => hResult.outcome.success = FALSE

\* C17 as stated: when a generation, embedding or vector-index call fails,
\* the failure is caught where the call is made and the reply is a non-empty
\* text built locally that does not carry the error of the failed call.
C17_FailuresDegradeLocally ==
    (hPhase = "done" /\ BoundaryFailed(hCall)) =>
        /\ ~hResult.outcome.raised
        /\ hResult.response # <<>>
        /\ hResult.response[2] # "e"

\* the operations of the run are add-item executions for this name and
\* quantity, one after the other, all finished
SequentialAdds(item_name, quantity) ==
    /\ invOps # <<>>
    /\ \A o \in 1..Len(invOps) :
          /\ invOps[o].kind = "add"
          /\ invOps[o].name = item_name
          /\ invOps[o].quantity = quantity
          /\ invOps[o].pc = "done"
          /\ ~invOps[o].overlap

\* the transaction records of an item, oldest first
RecordsOf(item_id) == SelectSeq(transactions, LAMBDA t : t.item_id = item_id)

\* one entity of that name, holding k times the quantity, with k records
\* whose quantity_after are Q, 2Q, ..., kQ
AddedUp(item_name, quantity, k) ==
    LET named == {i \in items : i.name = item_name}
    IN  /\ Cardinality(named) = 1
        /\ \A i \in named :
              /\ i.quantity = k * quantity
              /\ Len(RecordsOf(i.id)) = k
              /\ \A j \in 1..k : RecordsOf(i.id)[j].quantity_after = j * quantity

\* a stored name contains the name, case ignored
ContainedInStoredName(item_name) ==
    \E i \in items0 :
        \E k \in 1..Len(i.name) :
            \A j \in 1..Len(item_name) :
                /\ k + j - 1 <= Len(i.name)
                /\ FoldChar(i.name[k + j - 1]) = FoldChar(item_name[j])

LastRecord == transactions'[Len(transactions')]

\* the step finishes operation o
Finishes(o) == invOps[o].pc # "done" /\ invOps'[o].pc = "done"

\* C20: the transaction log only grows at its end.  The commit of a chat
\* add-item, of a REST item creation and of a REST quantity update each
\* append exactly one record holding the change and the total that results,
\* no step changes a quantity otherwise, and no step alters or removes a
\* record.
C20_TransactionLogAppendOnly ==
    /\ [][/\ Len(transactions') >= Len(transactions)
          /\ SubSeq(transactions', 1, Len(transactions)) = transactions
          /\ \A o \in 1..Len(invOps) :
                /\ (Finishes(o) /\ (AddItemCommit(o) \/ UpdateInventoryCommit(o))) =>
                      /\ Len(transactions') = Len(transactions) + 1
                      /\ LastRecord.quantity_change = invOps[o].quantity
                      /\ \E i \in items' :
                            /\ i.id = LastRecord.item_id
                            /\ LastRecord.quantity_after = i.quantity
                            /\ invOps[o].item_id # None => i.id = invOps[o].item_id
                /\ (Finishes(o) /\ AddInventoryItemLog(o)) =>
                      /\ Len(transactions') = Len(transactions) + 1
                      /\ LastRecord.item_id = invOps[o].item_id
                      /\ LastRecord.quantity_change = invOps[o].quantity
                      /\ LastRecord.quantity_after = invOps[o].quantity
          /\ items' # items =>
                \/ \E o \in 1..Len(invOps) : Finishes(o)
                \/ /\ Len(invOps') = Len(invOps) + 1
                   /\ invOps'[Len(invOps')].pc = "item_committed"]_vars
    /\ [](Len(transactions) =
             Cardinality(items0)
             + Cardinality({o \in 1..Len(invOps) : invOps[o].pc = "done"}))

\* C20 happens: a chat add-item and a REST update have both changed the
\* quantity of a stored item, and the log holds one more record for each.
C20_Witness ==
    /\ Len(invOps) = 2
    /\ {invOps[1].kind, invOps[2].kind} = {"add", "update"}
    /\ invOps[1].pc = "done"
    /\ invOps[2].pc = "done"
    /\ invOps[1].item_id = invOps[2].item_id
    /\ Len(transactions) = Cardinality(items0) + 2
    /\ \E i \in items :
          /\ i.id = transactions[Len(transactions)].item_id
          /\ i.quantity = transactions[Len(transactions)].quantity_after

(* ------------------------------------------------------------------------ *)
\* the call of can_handle has returned
CanHandleReturned == hPhase = "done" /\ hResult.op = "can_handle"

\* the message holds one of the terms, in any letter case
HoldsAny(user_message, terms) ==
    \E term \in terms : In(term, Lower(user_message))

\* C21: InventoryAgent.can_handle returns (false, 0) for every message that
\* holds a lesson-domain term and no strong inventory term, and returns true
\* for every message that holds a lesson-domain term together with "restock".
C21_LessonGuard ==
    CanHandleReturned =>
        LET user_message == hCall.user_message
        IN  /\ ( /\ HoldsAny(user_message, lesson_terms)
                 /\ ~HoldsAny(user_message, strong_inventory_terms) )
               => hResult.returned = <<FALSE, 0>>
            /\ ( /\ HoldsAny(user_message, lesson_terms)
                 /\ HoldsAny(user_message, {<<"r", "e", "s", "t", "o", "c", "k">>}) )
               => hResult.returned[1] = TRUE

\* a lesson request that asks to restock has been claimed
C21_Witness ==
    /\ CanHandleReturned
    /\ HoldsAny(hCall.user_message, lesson_terms)
    /\ HoldsAny(hCall.user_message, {<<"r", "e", "s", "t", "o", "c", "k">>})
    /\ hResult.returned[1] = TRUE

(* ------------------------------------------------------------------------ *)
\* the stages of can_handle in their order: whether the stage fires on the
\* message and what it returns; the last one always fires
Stages(user_message) ==
    LET m == MessageLower(user_message)
    IN  << <<CrossDomainGuard(m), <<FALSE, 0>> >>,
           <<HighConfidence(m), <<TRUE, 9>> >>,
           <<KeywordMatches(m) >= 2, <<TRUE, 7>> >>,
           <<KeywordMatches(m) = 1, <<TRUE, 5>> >>,
           <<WeakCue(m), <<TRUE, 4>> >>,
           <<TRUE, <<FALSE, 0>> >> >>

\* the first stage that fires
FirstFiring(stages) ==
    LET fires == {k \in 1..Len(stages) : stages[k][1]}
    IN  CHOOSE k \in fires : \A j \in fires : k <= j

\* C25: InventoryAgent.can_handle evaluates its stages in order and the first
\* stage that fires decides the result: cross-domain guard -> (false, 0), a
\* high-confidence rule -> (true, 0.9), at least two keyword hits -> (true,
\* 0.7), exactly one -> (true, 0.5), a weak cue -> (true, 0.4), otherwise
\* (false, 0); so the flag is true iff the confidence is above 0, and the
\* confidence is one of 0, 0.4, 0.5, 0.7, 0.9.
C25_FirstFiringStageDecides ==
    CanHandleReturned =>
        LET stages == Stages(hCall.user_message)
            returned == hResult.returned
        IN  /\ returned = stages[FirstFiring(stages)][2]
            /\ returned[1] = (returned[2] > 0)
            /\ returned[2] \in {0, 4, 5, 7, 9}

\* a message on which a high-confidence rule and two keywords both fire has
\* been given the confidence of the rule
C25_Witness ==
    /\ CanHandleReturned
    /\ ~CrossDomainGuard(MessageLower(hCall.user_message))
    /\ HighConfidence(MessageLower(hCall.user_message))
    /\ KeywordMatches(MessageLower(hCall.user_message)) >= 2
    /\ hResult.returned = <<TRUE, 9>>

(* ------------------------------------------------------------------------ *)
\* the facts of the item have been prepared on the path
FactsPrepared(op) == hPhase = "done" /\ hResult.op = op

\* C23: for every item with quantity q and minimum threshold m, the
\* stock-check path reports "adequate" iff q > m and "low" otherwise, the
\* low-stock path reports is_low iff q <= m and is_critical iff q < 0.5*m
\* (q=150, m=50 is "adequate"; q=8, m=15 is low and not critical); for
\* non-negative m, is_critical implies is_low.
C23_StockFlags ==
    LET q == hCall.quantity
        m == hCall.min_quantity
    IN  /\ FactsPrepared("stock_check") =>
              /\ (hResult.status = "adequate") = (q > m)
              /\ (hResult.status = "low") = ~(q > m)
              /\ (q = 150 /\ m = 50) => hResult.status = "adequate"
        /\ FactsPrepared("low_stock_alert") =>
              /\ hResult.is_low = (q <= m)
              /\ hResult.is_critical = (2 * q < m)
              /\ (q = 8 /\ m = 15) => (hResult.is_low /\ ~hResult.is_critical)
              /\ (m >= 0 /\ hResult.is_critical) => hResult.is_low

\* an item that sits exactly on its threshold has been reported low and not
\* critical
C23_Witness ==
    /\ FactsPrepared("low_stock_alert")
    /\ hCall.quantity = hCall.min_quantity
    /\ hCall.quantity > 0
    /\ hResult.is_low
    /\ ~hResult.is_critical

(* ------------------------------------------------------------------------ *)
\* the text of an exception, as everywhere in this module
ExceptionText == <<"e">>

\* the summary of a retrieved text was asked for and chat_completion raised
SummaryFailed ==
    /\ hPhase = "done"
    /\ hResult.op = "display"
    /\ hCall.gen = "raise"
    /\ Len(hCall.raw_text) > SummarizeAbove

EndsWithEllipsis(text) ==
    Len(text) >= 3 /\ SubSeq(text, Len(text) - 2, Len(text)) = Ellipsis

\* the text without its last three characters
Body(text) == SubSeq(text, 1, Len(text) - 3)

IsPrefix(pre, text) == Len(pre) <= Len(text) /\ SubSeq(text, 1, Len(pre)) = pre

SentenceTerminators == {".", "!", "?"}

\* the place, counted from 1, of the last character of a set among the first
\* n of a text, or 0
LastOf(text, chars, n) ==
    LET at == {i \in 1..n : i <= Len(text) /\ text[i] \in chars}
    IN  IF at = {} THEN 0 ELSE CHOOSE i \in at : \A j \in at : j <= i

\* the body ends with a sentence terminator that lies in the last 40% of the
\* length budget
CutAtSentence(body, budget) ==
    /\ body # <<>>
    /\ body[Len(body)] \in SentenceTerminators
    /\ 10 * Len(body) > 6 * budget

\* the body ends just before the last space within the length budget
CutAtWordBoundary(body, source, budget) ==
    /\ Len(body) < Len(source)
    /\ LastOf(source, {" "}, budget) = Len(body) + 1

\* C24 as stated: when the generation collaborator fails during the
\* summarization of a retrieved text, the displayed text is non-empty, is a
\* prefix of the source cut at a sentence terminator lying in the last 40% of
\* the length budget or else at the nearest preceding word boundary, ends with
\* the ellipsis marker, and contains no exception text.
C24_TruncationCutsAtBoundary ==
    SummaryFailed =>
        LET source == hCall.raw_text
            shown == hResult.display_text
        IN  /\ shown # <<>>
            /\ EndsWithEllipsis(shown)
            /\ IsPrefix(Body(shown), source)
            /\ \/ CutAtSentence(Body(shown), FallbackMaxLength)
               \/ CutAtWordBoundary(Body(shown), source, FallbackMaxLength)
            /\ ~In(ExceptionText, shown)

\* C24, amended: when the generation collaborator fails during the
\* summarization of a retrieved text, the displayed text is non-empty and
\* contains no exception text; a source no longer than the length budget is
\* displayed whole, without the ellipsis marker; a longer source is displayed
\* as a prefix followed by the ellipsis marker, the prefix ending with the
\* last sentence terminator of the budget when that lies beyond 60% of the
\* budget, else just before the last space of the budget when that lies
\* beyond 70% of the budget, else being the whole budget.
C24_TruncationByLength ==
    SummaryFailed =>
        LET source == hCall.raw_text
            shown == hResult.display_text
            budget == FallbackMaxLength
            sentence == LastOf(source, SentenceTerminators, budget)
            space == LastOf(source, {" "}, budget)
        IN  /\ shown # <<>>
            /\ ~In(ExceptionText, shown)
            /\ Len(source) <= budget => shown = source
            /\ Len(source) > budget =>
                  /\ EndsWithEllipsis(shown)
                  /\ IsPrefix(Body(shown), source)
                  /\ Len(Body(shown)) =
                        IF 10 * (sentence - 1) > 6 * budget THEN sentence
                        ELSE IF 10 * (space - 1) > 7 * budget THEN space - 1
                        ELSE budget

\* a source longer than the budget, with no sentence end and no space near
\* the end of the budget, has been cut in the middle of a word
C24_Witness ==
    /\ SummaryFailed
    /\ Len(hCall.raw_text) > FallbackMaxLength
    /\ \E i \in 1..(FallbackMaxLength - 1) : hCall.raw_text[i] = " "
    /\ hCall.raw_text[FallbackMaxLength] = "a"
    /\ hCall.raw_text[FallbackMaxLength + 1] = "a"
    /\ hResult.display_text = SubSeq(hCall.raw_text, 1, FallbackMaxLength) \o Ellipsis

(* ------------------------------------------------------------------------ *)
\* LessonPlanAgent.execute runs in this step
LessonPlanExecutes ==
    hPhase = "ready" /\ hPhase' = "done" /\ hCall.agent = "LessonPlanAgent"

\* C22: LessonPlanAgent.execute performs no mutation: for every query and
\* every collaborator outcome it leaves the conversation stream, the inventory
\* store and the vector index unchanged.
C22_LessonPlanExecuteMutatesNothing ==
    [][LessonPlanExecutes =>
          UNCHANGED <<messages, items, transactions, collection>>]_vars

(* ------------------------------------------------------------------------ *)
\* the tasks created for user message id that ran to their end
RepliesTo(id) ==
    {u \in 1..Len(units) : units[u].trigger = id /\ units[u].pc = "done"}

\* the last task created for user message id
LastUnitFor(id) ==
    LET us == {u \in 1..Len(units) : units[u].trigger = id}
    IN  CHOOSE u \in us : \A v \in us : v <= u

\* C26: when no Create, Edit or Delete is accepted while a background unit is
\* in flight, every bot message in the stream is positionally paired with the
\* user message whose Create or Edit spawned the unit that produced it, and
\* every trigger-bearing user message has exactly one paired bot message.
C26_QuietRepliesArePaired ==
    ~InFlight =>
        /\ \A u \in 1..Len(units) :
              (units[u].pc = "done" /\ HasRow(messages, units[u].bot_id)) =>
                  /\ HasRow(messages, units[u].trigger)
                  /\ Row(messages, units[u].bot_id)
                        \in PairedBots(messages, units[u].trigger)
        /\ \A m \in messages :
              ( /\ ~m.is_bot
                /\ CarriesTrigger(m.content)
                /\ RepliesTo(m.id) # {}
                /\ units[LastUnitFor(m.id)].pc = "done" )
              => Cardinality(PairedBots(messages, m.id)) = 1

(* ------------------------------------------------------------------------ *)
\* the bot messages in the stream that tasks created for user message id stored
GeneratedFor(id) ==
    {b \in messages :
        \E u \in 1..Len(units) : units[u].trigger = id /\ units[u].bot_id = b.id}

\* C27: once all background units have completed, the stream holds at most
\* one bot message generated for any given user message, for every
\* interleaving of Create, Edit and Delete requests with units in flight.
C27_OneReplyPerMessage ==
    ~InFlight =>
        \A m \in messages : ~m.is_bot => Cardinality(GeneratedFor(m.id)) <= 1

(* ------------------------------------------------------------------------ *)
\* C29: a user message is removed from the conversation stream only by a
\* Delete request issued by its own author; no request issued by a different
\* authenticated user can remove it.
C29_OnlyAuthorRemoves ==
    [][\A m \in messages :
          (messages' # messages /\ ~m.is_bot /\ ~HasRow(messages', m.id))
              => IsDelete(m.user_id, m.id)]_vars

(* ------------------------------------------------------------------------ *)
\* C30: for every trigger-bearing message accepted by Create, the 'message'
\* broadcast of the user message happens before the background unit is
\* spawned, so it precedes the broadcast of the bot reply produced for it,
\* and that reply is persisted with an id greater than the triggering
\* message's id.
C30_CreateBroadcastsBeforeReply ==
    /\ [][\A caller \in Users, content \in Contents :
            (IsCreate(caller, content) /\ CarriesTrigger(content)) =>
                /\ Len(NewEvents) = 1
                /\ NewEvents[1].type = "message"
                /\ NewEvents[1].message.id = nextId
                /\ Len(units') = Len(units) + 1
                /\ units'[Len(units')].trigger = nextId
                /\ units'[Len(units')].pc = "spawned"
                /\ units'[Len(units')].bot_id = None]_vars
    /\ [](\A u \in 1..Len(units) :
            MessageEventsFor(units[u].trigger) # {} =>
                /\ units[u].bot_id # None => units[u].bot_id > units[u].trigger
                /\ units[u].pc = "done" =>
                      \A i \in MessageEventsFor(units[u].trigger),
                         j \in MessageEventsFor(units[u].bot_id) : i < j)

\* the only request was a create with the trigger, and its reply has been
\* stored under a greater id and broadcast after the message
C30_Witness ==
    /\ opCount = 1
    /\ lastOp.kind = "create"
    /\ \E u \in 1..Len(units) :
          /\ units[u].trigger = lastOp.target
          /\ units[u].pc = "done"
          /\ units[u].bot_id > units[u].trigger
          /\ MessageEventIndex(units[u].trigger) > 0
          /\ MessageEventIndex(units[u].bot_id) > MessageEventIndex(units[u].trigger)

(* ------------------------------------------------------------------------ *)
\* the sum of quantity_change over a sequence of transaction records
RECURSIVE SumOfChanges(_)
SumOfChanges(records) ==
    IF records = <<>> THEN 0
    ELSE Head(records).quantity_change + SumOfChanges(Tail(records))

\* C28: for every interleaving of concurrent add-item executions and REST
\* quantity updates, every item's quantity equals the sum of quantity_change
\* over its transaction records and equals the quantity_after of its most
\* recent record; no concurrent increment is lost.
C28_QuantityEqualsLog ==
    ~Overlaps(invOps) =>
        \A i \in items :
            LET records == RecordsOf(i.id)
            IN  /\ records # <<>>
                /\ i.quantity = SumOfChanges(records)
                /\ i.quantity = records[Len(records)].quantity_after

====
